---- MODULE Spec2Model ----
(***************************************************************************)
(* Model of src/python/main.py: the salt minion version report.            *)
(*                                                                         *)
(*   parse_version      a dotted version string -> (major, minor)          *)
(*   filter_by_version  an inventory -> (updatable, higher, unresponsive)  *)
(*   main               load the files, classify each, print the reports   *)
(*                                                                         *)
(* A Python str is a sequence of one-character strings.  A raised          *)
(* exception is a result record with ok = FALSE and the exception's name.  *)
(***************************************************************************)
EXTENDS Integers, Sequences, FiniteSets, TLC

VARIABLES
    pc,                      \* position of the running call
    version_str,             \* parse_version: its argument
    parse_out,               \* parse_version: what the call produced
    max_version,             \* filter_by_version: first argument
    minion_data,             \* filter_by_version: second argument, in iteration order
    max_parsed,              \* (max_version_major, max_version_minor)
    unresponsive_minions,
    responsive_minions,
    parsed_minions,
    updatable_minions,
    higher_version_minions,
    result,                  \* filter_by_version: what the call returned
    JSON_FILES,              \* main: the configured files
    disk,                    \* main: what reading each configured file gives
    all_minion_data,         \* main: inventories loaded so far
    processed_data,          \* main: classification results so far
    output                   \* main: what has been printed, in order

pvars == <<version_str, parse_out>>
fvars == <<max_version, minion_data, max_parsed, unresponsive_minions,
           responsive_minions, parsed_minions, updatable_minions,
           higher_version_minions, result>>
dvars == <<JSON_FILES, disk, all_minion_data, processed_data, output>>
vars == <<pc, pvars, fvars, dvars>>

----------------------------------------------------------------------------
(* Bounds of the model. *)

\* longest generated version string handed to parse_version
MaxLen == 4
\* most hosts in one inventory handed to filter_by_version
MaxHosts == 2
\* most configured files of a run of main
MaxFiles == 3

----------------------------------------------------------------------------
(* Strings. *)

Digits == {"0", "1", "2", "3", "4", "5", "6", "7", "8", "9"}

\* the characters generated version strings are built from
Alphabet == {"0", "1", "7", ".", "-", "+", " ", "_", "a"}

DigitVal(c) ==
    CASE c = "0" -> 0 [] c = "1" -> 1 [] c = "2" -> 2 [] c = "3" -> 3
      [] c = "4" -> 4 [] c = "5" -> 5 [] c = "6" -> 6 [] c = "7" -> 7
      [] c = "8" -> 8 [] c = "9" -> 9

DigitChar(d) ==
    CASE d = 0 -> "0" [] d = 1 -> "1" [] d = 2 -> "2" [] d = 3 -> "3"
      [] d = 4 -> "4" [] d = 5 -> "5" [] d = 6 -> "6" [] d = 7 -> "7"
      [] d = 8 -> "8" [] d = 9 -> "9"

V_3007_6 == <<"3", "0", "0", "7", ".", "6">>
V_3006_9 == <<"3", "0", "0", "6", ".", "9">>
V_3007_5 == <<"3", "0", "0", "7", ".", "5">>
V_3006_5 == <<"3", "0", "0", "6", ".", "5">>
V_3008_0 == <<"3", "0", "0", "8", ".", "0">>
V_3007_10 == <<"3", "0", "0", "7", ".", "1", "0">>
V_5 == <<"5">>
V_a_b == <<"a", ".", "b">>
V_3007_dot == <<"3", "0", "0", "7", ".">>
V_neg1_5 == <<"-", "1", ".", "5">>
V_3007_neg2 == <<"3", "0", "0", "7", ".", "-", "2">>
V_3006 == <<"3", "0", "0", "6">>
V_03006_05 == <<"0", "3", "0", "0", "6", ".", "0", "5">>
V_3007_10_2 == <<"3", "0", "0", "7", ".", "1", "0", ".", "2">>
V_3006_2 == <<"3", "0", "0", "6", ".", "2">>
V_3007_9 == <<"3", "0", "0", "7", ".", "9">>
V_empty == <<>>

\* str.split(sep) for a one-character separator: never an empty list
RECURSIVE split_acc(_, _, _, _)
split_acc(s, sep, cur, acc) ==
    IF s = <<>> THEN Append(acc, cur)
    ELSE IF Head(s) = sep
         THEN split_acc(Tail(s), sep, <<>>, Append(acc, cur))
         ELSE split_acc(Tail(s), sep, Append(cur, Head(s)), acc)

split(s, sep) == split_acc(s, sep, <<>>, <<>>)

\* str.strip() as int() applies it (the only whitespace generated is " ")
RECURSIVE lstrip(_)
lstrip(s) == IF s # <<>> /\ Head(s) = " " THEN lstrip(Tail(s)) ELSE s

RECURSIVE rstrip(_)
rstrip(s) ==
    IF s # <<>> /\ s[Len(s)] = " " THEN rstrip(SubSeq(s, 1, Len(s) - 1)) ELSE s

strip(s) == rstrip(lstrip(s))

\* the digits of an int() literal: digits, single underscores between them
digits_ok(b) ==
    /\ b # <<>>
    /\ b[1] \in Digits
    /\ b[Len(b)] \in Digits
    /\ \A i \in 1..Len(b) : b[i] \in Digits \/ b[i] = "_"
    /\ \A i \in 1..(Len(b) - 1) : ~(b[i] = "_" /\ b[i + 1] = "_")

RECURSIVE digits_value(_, _)
digits_value(b, acc) ==
    IF b = <<>> THEN acc
    ELSE IF Head(b) = "_" THEN digits_value(Tail(b), acc)
         ELSE digits_value(Tail(b), 10 * acc + DigitVal(Head(b)))

\* int(s) for a str s, base 10: [ok, val]; ok = FALSE is ValueError
py_int(s) ==
    LET t == strip(s)
        signed == t # <<>> /\ Head(t) \in {"+", "-"}
        body == IF signed THEN Tail(t) ELSE t
        mag == digits_value(body, 0)
    IN IF digits_ok(body)
       THEN [ok |-> TRUE,
             val |-> IF signed /\ Head(t) = "-" THEN 0 - mag ELSE mag]
       ELSE [ok |-> FALSE, val |-> 0]

\* str(n) for an int n, as the f-string writes it
RECURSIVE nat_str(_)
nat_str(n) ==
    IF n < 10 THEN <<DigitChar(n)>>
    ELSE nat_str(n \div 10) \o <<DigitChar(n % 10)>>

int_str(n) == IF n < 0 THEN <<"-">> \o nat_str(0 - n) ELSE nat_str(n)

----------------------------------------------------------------------------
(* JSON values of the "saltversion" field, and call results. *)

Str(s) == [kind |-> "str", val |-> s]
Null == [kind |-> "null", val |-> <<>>]

Returned(mj, mn) == [ok |-> TRUE, err |-> "none", major |-> mj, minor |-> mn]
Raised(e) == [ok |-> FALSE, err |-> e, major |-> 0, minor |-> 0]
NotCalled == [ok |-> FALSE, err |-> "not called", major |-> 0, minor |-> 0]

----------------------------------------------------------------------------
(* parse_version *)

\* parse_version, were it to convert every segment of the split
parse_version_every_segment(v) ==
    IF v.kind # "str" THEN Raised("AttributeError")
    ELSE LET parts == split(v.val, ".")
         IN IF \E i \in 1..Len(parts) : ~py_int(parts[i]).ok
            THEN Raised("ValueError")
            ELSE Returned(py_int(parts[1]).val,
                          IF Len(parts) > 1 THEN py_int(parts[2]).val ELSE 0)

parse_version(v) ==
    IF v.kind # "str" THEN Raised("AttributeError")
    ELSE LET parts == split(v.val, ".")
             major == py_int(parts[1])
             minor == IF Len(parts) > 1 THEN py_int(parts[2])
                      ELSE [ok |-> TRUE, val |-> 0]
         IN IF ~major.ok \/ ~minor.ok THEN Raised("ValueError")
            ELSE Returned(major.val, minor.val)

----------------------------------------------------------------------------
(* filter_by_version, statement by statement.                              *)
(* An inventory is the sequence of its (host id, record) items in the      *)
(* dict's iteration order; a record says whether it has "saltversion" and  *)
(* the field's value.                                                      *)

Absent == [has |-> FALSE, value |-> Null]
Present(v) == [has |-> TRUE, value |-> v]
Item(h, r) == [id |-> h, rec |-> r]

\* unresponsive_of, were it to map every item and not only the filtered ones
unresponsive_of_unfiltered(items) == [i \in 1..Len(items) |-> items[i].id]

\* unresponsive_of, were it to test the field's value (.get() is None)
unresponsive_of_null_too(items) ==
    LET lacks(item) == ~item.rec.has \/ item.rec.value = Null
        kept == SelectSeq(items, lacks)
    IN [i \in 1..Len(kept) |-> kept[i].id]

\* lines 17-22: the ids of the items without the field
unresponsive_of(items) ==
    LET lacks(item) == ~item.rec.has
        kept == SelectSeq(items, lacks)
    IN [i \in 1..Len(kept) |-> kept[i].id]

\* lines 24-26: the items with the field
responsive_of(items) ==
    LET has(item) == item.rec.has
    IN SelectSeq(items, has)

\* parsed_of, were it to leave out the hosts whose version does not parse
parsed_of_skipping(responsive) ==
    LET good(item) == parse_version(item.rec.value).ok
        kept == SelectSeq(responsive, good)
    IN [ok |-> TRUE, err |-> "none",
        items |-> [i \in 1..Len(kept) |->
                     [id |-> kept[i].id,
                      major |-> parse_version(kept[i].rec.value).major,
                      minor |-> parse_version(kept[i].rec.value).minor]]]

\* lines 27-32: every responsive item parsed, in order; the first parse that
\* raises ends the call
parsed_of(responsive) ==
    LET p(i) == parse_version(responsive[i].rec.value)
        bad == {i \in 1..Len(responsive) : ~p(i).ok}
    IN IF bad # {}
       THEN [ok |-> FALSE,
             err |-> p(CHOOSE i \in bad : \A j \in bad : i <= j).err,
             items |-> <<>>]
       ELSE [ok |-> TRUE, err |-> "none",
             items |-> [i \in 1..Len(responsive) |->
                          [id |-> responsive[i].id,
                           major |-> p(i).major, minor |-> p(i).minor]]]

\* entry_of, were it to leave out a minor of 0
entry_of_short(item) ==
    [key |-> item.id,
     text |-> IF item.minor = 0 THEN int_str(item.major)
              ELSE int_str(item.major) \o <<".">> \o int_str(item.minor)]

\* lines 35 and 45: {id: f"{major}.{minor}"}
entry_of(item) ==
    [key |-> item.id,
     text |-> int_str(item.major) \o <<".">> \o int_str(item.minor)]

\* is_updatable, were it the lexicographic (major, minor) < (maxMajor, maxMinor)
is_updatable_lexicographic(item, mx) ==
    \/ item.major < mx.major
    \/ item.major = mx.major /\ item.minor < mx.minor

\* is_higher, were it to accept a greater major too
is_higher_any_major(item, mx) ==
    item.major >= mx.major /\ item.minor > mx.minor

\* lines 37-38
is_updatable(item, mx) == item.major < mx.major /\ item.minor < mx.minor

\* lines 47-48
is_higher(item, mx) == item.major = mx.major /\ item.minor > mx.minor

\* lines 33-42
updatable_of(parsed, mx) ==
    LET keep(item) == is_updatable(item, mx)
        kept == SelectSeq(parsed, keep)
    IN [i \in 1..Len(kept) |-> entry_of(kept[i])]

\* lines 43-52
higher_of(parsed, mx) ==
    LET keep(item) == is_higher(item, mx)
        kept == SelectSeq(parsed, keep)
    IN [i \in 1..Len(kept) |-> entry_of(kept[i])]

FReturned(u, h, n) ==
    [ok |-> TRUE, err |-> "none",
     updatable |-> u, higher |-> h, unresponsive |-> n]
FRaised(e) ==
    [ok |-> FALSE, err |-> e,
     updatable |-> <<>>, higher |-> <<>>, unresponsive |-> <<>>]
FNotCalled == FRaised("not called")

\* the whole call, as main's process_minion_data uses it
filter_by_version(mv, items) ==
    LET mx == parse_version(Str(mv))
        parsed == parsed_of(responsive_of(items))
    IN IF ~mx.ok THEN FRaised(mx.err)
       ELSE IF ~parsed.ok THEN FRaised(parsed.err)
       ELSE FReturned(updatable_of(parsed.items, mx),
                      higher_of(parsed.items, mx),
                      unresponsive_of(items))

----------------------------------------------------------------------------
(* Inputs. *)

Strings(n) == UNION {[1..k -> Alphabet] : k \in 0..n}

Examples ==
    {V_3007_6, V_3006_9, V_3007_5, V_3006_5, V_3008_0, V_3007_10, V_5, V_a_b,
     V_3007_dot, V_neg1_5, V_3007_neg2, V_3006, V_03006_05, V_3007_10_2,
     V_3006_2, V_3007_9, V_empty}

\* the strings parse_version is called on
ParseInputs == Strings(MaxLen) \cup Examples

\* the max versions and the host versions filter_by_version is called on
MaxVersions == {V_3007_6, V_3006, V_a_b, V_empty}
HostVersions ==
    {V_3006_9, V_3007_5, V_3006_5, V_3008_0, V_3007_10, V_3006, V_03006_05,
     V_3007_10_2, V_a_b, V_3007_dot, V_neg1_5}

Records == {Absent, Present(Null)} \cup {Present(Str(s)) : s \in HostVersions}

HostIds == {<<"h">> \o int_str(i) : i \in 1..MaxHosts}

\* the keys of a dict are distinct
Injective(s) == \A i, j \in 1..Len(s) : s[i] = s[j] => i = j

Inventories ==
    UNION {{[i \in 1..n |-> Item(ids[i], recs[i])] :
              ids \in {s \in [1..n -> HostIds] : Injective(s)},
              recs \in [1..n -> Records]} : n \in 0..MaxHosts}

----------------------------------------------------------------------------
(* What each call starts from when it is not the one running. *)

ParseIdle == version_str = Str(<<>>) /\ parse_out = NotCalled

FilterLocalsInit ==
    /\ max_parsed = NotCalled
    /\ unresponsive_minions = <<>>
    /\ responsive_minions = <<>>
    /\ parsed_minions = <<>>
    /\ updatable_minions = <<>>
    /\ higher_version_minions = <<>>
    /\ result = FNotCalled

FilterIdle == max_version = <<>> /\ minion_data = <<>> /\ FilterLocalsInit

MainIdle ==
    /\ JSON_FILES = <<>>
    /\ disk = <<>>
    /\ all_minion_data = <<>>
    /\ processed_data = <<>>
    /\ output = <<>>

----------------------------------------------------------------------------
(* A call of parse_version. *)

InitParse ==
    /\ pc = "parse_version"
    /\ version_str \in {Str(s) : s \in ParseInputs}
    /\ parse_out = NotCalled
    /\ FilterIdle
    /\ MainIdle

ParseVersion ==
    /\ pc = "parse_version"
    /\ parse_out' = parse_version(version_str)
    /\ pc' = IF parse_out'.ok THEN "parse_returned" ELSE "parse_raised"
    /\ UNCHANGED <<version_str, fvars, dvars>>

NextParse == ParseVersion

SpecParse == InitParse /\ [][NextParse]_vars

----------------------------------------------------------------------------
(* A call of filter_by_version. *)

InitFilter ==
    /\ pc = "f_parse_max"
    /\ max_version \in MaxVersions
    /\ minion_data \in Inventories
    /\ FilterLocalsInit
    /\ ParseIdle
    /\ MainIdle

\* line 15
FParseMax ==
    /\ pc = "f_parse_max"
    /\ max_parsed' = parse_version(Str(max_version))
    /\ pc' = IF max_parsed'.ok THEN "f_unresponsive" ELSE "f_raised"
    /\ UNCHANGED <<max_version, minion_data, unresponsive_minions,
                   responsive_minions, parsed_minions, updatable_minions,
                   higher_version_minions, result, pvars, dvars>>

\* lines 16-22
FUnresponsive ==
    /\ pc = "f_unresponsive"
    /\ unresponsive_minions' = unresponsive_of(minion_data)
    /\ pc' = "f_responsive"
    /\ UNCHANGED <<max_version, minion_data, max_parsed, responsive_minions,
                   parsed_minions, updatable_minions, higher_version_minions,
                   result, pvars, dvars>>

\* lines 24-26
FResponsive ==
    /\ pc = "f_responsive"
    /\ responsive_minions' = responsive_of(minion_data)
    /\ pc' = "f_parse"
    /\ UNCHANGED <<max_version, minion_data, max_parsed, unresponsive_minions,
                   parsed_minions, updatable_minions, higher_version_minions,
                   result, pvars, dvars>>

\* lines 27-32
FParseMinions ==
    /\ pc = "f_parse"
    /\ LET parsed == parsed_of(responsive_minions)
       IN /\ parsed_minions' = parsed.items
          /\ pc' = IF parsed.ok THEN "f_updatable" ELSE "f_raised"
    /\ UNCHANGED <<max_version, minion_data, max_parsed, unresponsive_minions,
                   responsive_minions, updatable_minions,
                   higher_version_minions, result, pvars, dvars>>

\* lines 33-42
FUpdatable ==
    /\ pc = "f_updatable"
    /\ updatable_minions' = updatable_of(parsed_minions, max_parsed)
    /\ pc' = "f_higher"
    /\ UNCHANGED <<max_version, minion_data, max_parsed, unresponsive_minions,
                   responsive_minions, parsed_minions, higher_version_minions,
                   result, pvars, dvars>>

\* lines 43-52
FHigher ==
    /\ pc = "f_higher"
    /\ higher_version_minions' = higher_of(parsed_minions, max_parsed)
    /\ pc' = "f_return"
    /\ UNCHANGED <<max_version, minion_data, max_parsed, unresponsive_minions,
                   responsive_minions, parsed_minions, updatable_minions,
                   result, pvars, dvars>>

\* line 54
FReturn ==
    /\ pc = "f_return"
    /\ result' = FReturned(updatable_minions, higher_version_minions,
                           unresponsive_minions)
    /\ pc' = "f_returned"
    /\ UNCHANGED <<max_version, minion_data, max_parsed, unresponsive_minions,
                   responsive_minions, parsed_minions, updatable_minions,
                   higher_version_minions, pvars, dvars>>

NextFilter ==
    \/ FParseMax
    \/ FUnresponsive
    \/ FResponsive
    \/ FParseMinions
    \/ FUpdatable
    \/ FHigher
    \/ FReturn

SpecFilter == InitFilter /\ [][NextFilter]_vars

----------------------------------------------------------------------------
(* main *)

\* line 100
MAX_VERSION == V_3007_6

\* lines 95-99: "all_minion_data<i>.json"
FileName(i) ==
    <<"a", "l", "l", "_", "m", "i", "n", "i", "o", "n", "_",
      "d", "a", "t", "a">> \o int_str(i) \o <<".", "j", "s", "o", "n">>

\* line 109: filename.split("_")[-1].split(".")[0]
dc_name_of(filename) ==
    LET by_underscore == split(filename, "_")
    IN split(by_underscore[Len(by_underscore)], ".")[1]

LowerCase ==
    <<"a", "b", "c", "d", "e", "f", "g", "h", "i", "j", "k", "l", "m",
      "n", "o", "p", "q", "r", "s", "t", "u", "v", "w", "x", "y", "z">>
UpperCase ==
    <<"A", "B", "C", "D", "E", "F", "G", "H", "I", "J", "K", "L", "M",
      "N", "O", "P", "Q", "R", "S", "T", "U", "V", "W", "X", "Y", "Z">>

\* str.upper()
upper(s) ==
    [i \in 1..Len(s) |->
       IF \E k \in 1..Len(LowerCase) : LowerCase[k] = s[i]
       THEN UpperCase[CHOOSE k \in 1..Len(LowerCase) : LowerCase[k] = s[i]]
       ELSE s[i]]

\* lines 71-91: the block generate_report prints for one datacenter
generate_report(datacenter_name, updatable, higher_version, unresponsive) ==
    [kind |-> "report",
     header |-> upper(datacenter_name),
     updatable |-> updatable,
     higher |-> higher_version,
     unresponsive |-> unresponsive,
     rule |-> 20 + Len(datacenter_name)]

\* line 104
NoDataMessage ==
    [kind |-> "no data", header |-> <<>>, updatable |-> <<>>,
     higher |-> <<>>, unresponsive |-> <<>>, rule |-> 0]

\* lines 57-60: what open() and json.load() give for a file
Loaded(items) == [ok |-> TRUE, err |-> "none", data |-> items]
LoadFailed(e) == [ok |-> FALSE, err |-> e, data |-> <<>>]

H1 == <<"h", "1">>
H2 == <<"h", "2">>
H3 == <<"h", "3">>

FileInventories ==
    {<<>>,
     <<Item(H1, Absent)>>,
     <<Item(H1, Present(Str(V_3006_2))), Item(H2, Present(Str(V_3007_9))),
       Item(H3, Absent)>>,
     <<Item(H1, Present(Str(V_3006_5))), Item(H2, Present(Str(V_a_b)))>>}

FileContents ==
    {Loaded(items) : items \in FileInventories}
      \cup {LoadFailed("FileNotFoundError"), LoadFailed("JSONDecodeError")}

\* lines 57-60: reading the k-th configured file
parse_json(k) == disk[k]

Init ==
    /\ pc = "m_load"
    /\ JSON_FILES \in {[i \in 1..n |-> FileName(i)] : n \in 0..MaxFiles}
    /\ disk \in [1..Len(JSON_FILES) -> FileContents]
    /\ all_minion_data = <<>>
    /\ processed_data = <<>>
    /\ output = <<>>
    /\ ParseIdle
    /\ FilterIdle

\* lines 63-64, 102: map(parse_json, files), one file per step
MLoadFile ==
    /\ pc = "m_load"
    /\ Len(all_minion_data) < Len(JSON_FILES)
    /\ LET file == parse_json(Len(all_minion_data) + 1)
       IN IF file.ok
          THEN /\ all_minion_data' = Append(all_minion_data, file.data)
               /\ pc' = "m_load"
          ELSE /\ all_minion_data' = all_minion_data
               /\ pc' = "m_raised"
    /\ UNCHANGED <<JSON_FILES, disk, processed_data, output, pvars, fvars>>

\* MCheckEmpty, were the return of line 105 missing
MCheckEmpty_fallthrough ==
    /\ pc = "m_load"
    /\ Len(all_minion_data) = Len(JSON_FILES)
    /\ output' = IF all_minion_data = <<>>
                 THEN Append(output, NoDataMessage) ELSE output
    /\ pc' = "m_process"
    /\ UNCHANGED <<JSON_FILES, disk, all_minion_data, processed_data,
                   pvars, fvars>>

\* lines 102-105: list(...) is complete; the empty list ends the run
MCheckEmpty ==
    /\ pc = "m_load"
    /\ Len(all_minion_data) = Len(JSON_FILES)
    /\ IF all_minion_data = <<>>
       THEN /\ output' = Append(output, NoDataMessage)
            /\ pc' = "m_done"
       ELSE /\ output' = output
            /\ pc' = "m_process"
    /\ UNCHANGED <<JSON_FILES, disk, all_minion_data, processed_data,
                   pvars, fvars>>

\* MProcessOne, were the map consumed lazily by the report loop
MProcessOne_streaming ==
    /\ pc = "m_process"
    /\ Len(processed_data) < Len(all_minion_data)
    /\ LET k == Len(processed_data) + 1
           r == filter_by_version(MAX_VERSION, all_minion_data[k])
       IN IF r.ok
          THEN /\ processed_data' = Append(processed_data, r)
               /\ output' = Append(output,
                                   generate_report(dc_name_of(JSON_FILES[k]),
                                                   r.updatable, r.higher,
                                                   r.unresponsive))
               /\ pc' = "m_process"
          ELSE /\ processed_data' = processed_data
               /\ output' = output
               /\ pc' = "m_raised"
    /\ UNCHANGED <<JSON_FILES, disk, all_minion_data, pvars, fvars>>

\* lines 67-68, 107: map(filter_by_version, data), one inventory per step
MProcessOne ==
    /\ pc = "m_process"
    /\ Len(processed_data) < Len(all_minion_data)
    /\ LET r == filter_by_version(MAX_VERSION,
                                  all_minion_data[Len(processed_data) + 1])
       IN IF r.ok
          THEN /\ processed_data' = Append(processed_data, r)
               /\ pc' = "m_process"
          ELSE /\ processed_data' = processed_data
               /\ pc' = "m_raised"
    /\ UNCHANGED <<JSON_FILES, disk, all_minion_data, output, pvars, fvars>>

\* line 107: list(...) is complete
MProcessed ==
    /\ pc = "m_process"
    /\ Len(processed_data) = Len(all_minion_data)
    /\ pc' = "m_report"
    /\ UNCHANGED <<dvars, pvars, fvars>>

\* the reports printed so far
Reports == SelectSeq(output, LAMBDA m : m.kind = "report")

\* lines 108-110: one turn of the loop over zip(JSON_FILES, processed_data)
MReport ==
    /\ pc = "m_report"
    /\ Len(Reports) < Len(JSON_FILES)
    /\ Len(Reports) < Len(processed_data)
    /\ LET k == Len(Reports) + 1
           r == processed_data[k]
       IN output' = Append(output,
                           generate_report(dc_name_of(JSON_FILES[k]),
                                           r.updatable, r.higher,
                                           r.unresponsive))
    /\ pc' = "m_report"
    /\ UNCHANGED <<JSON_FILES, disk, all_minion_data, processed_data,
                   pvars, fvars>>

\* the loop is exhausted: main returns
MReturn ==
    /\ pc = "m_report"
    /\ ~(Len(Reports) < Len(JSON_FILES) /\ Len(Reports) < Len(processed_data))
    /\ pc' = "m_done"
    /\ UNCHANGED <<dvars, pvars, fvars>>

Next ==
    \/ MLoadFile
    \/ MCheckEmpty
    \/ MProcessOne
    \/ MProcessed
    \/ MReport
    \/ MReturn

Spec == Init /\ [][Next]_vars

----------------------------------------------------------------------------
(* The segments of a version string, read off the positions of its dots.   *)

DotsOf(s) == {i \in 1..Len(s) : s[i] = "."}
Least(S) == CHOOSE i \in S : \A j \in S : i <= j
FirstDot(s) == IF DotsOf(s) = {} THEN Len(s) + 1 ELSE Least(DotsOf(s))
SecondDot(s) ==
    LET later == {i \in DotsOf(s) : i > FirstDot(s)}
    IN IF later = {} THEN Len(s) + 1 ELSE Least(later)
FirstSegment(s) == SubSeq(s, 1, FirstDot(s) - 1)
HasSecondSegment(s) == FirstDot(s) <= Len(s)
SecondSegment(s) == SubSeq(s, FirstDot(s) + 1, SecondDot(s) - 1)

\* a version string parse_version accepts
WellFormed(s) ==
    /\ py_int(FirstSegment(s)).ok
    /\ HasSecondSegment(s) => py_int(SecondSegment(s)).ok

\* a "saltversion" value parse_version accepts
WellFormedValue(v) == v.kind = "str" /\ WellFormed(v.val)

----------------------------------------------------------------------------
(* The inventory of the running filter_by_version call.                    *)

InventoryIds == {minion_data[i].id : i \in 1..Len(minion_data)}
PosOf(h) == CHOOSE i \in 1..Len(minion_data) : minion_data[i].id = h
RecordOf(h) == minion_data[PosOf(h)].rec
ParsedOf(h) == parse_version(RecordOf(h).value)
MaxParsed == parse_version(Str(max_version))
KeysOf(entries) == [i \in 1..Len(entries) |-> entries[i].key]
Range(s) == {s[i] : i \in 1..Len(s)}
Occurrences(s, h) == Cardinality({i \in 1..Len(s) : s[i] = h})

\* ids lists exactly the hosts of S, each once, in inventory iteration order
ListsInOrder(ids, S) ==
    /\ Range(ids) = S
    /\ S \subseteq InventoryIds
    /\ \A i, j \in 1..Len(ids) : i < j => PosOf(ids[i]) < PosOf(ids[j])

Responsive == {h \in InventoryIds : RecordOf(h).has}

----------------------------------------------------------------------------
(* Claims about parse_version (checked under SpecParse). *)

\* C6: parse_version returns (int of the first segment, int of the second
\* segment or 0 when there is none), never reads a later segment, and raises
\* exactly when the first or an existing second segment is not an integer
\* (the empty string and "3007." included).
C6_ParseVersionContract ==
    pc \in {"parse_returned", "parse_raised"} =>
      LET s == version_str.val
      IN /\ (pc = "parse_returned") = parse_out.ok
         /\ parse_out.ok = WellFormed(s)
         /\ parse_out.ok =>
              /\ parse_out.major = py_int(FirstSegment(s)).val
              /\ parse_out.minor = IF HasSecondSegment(s)
                                   THEN py_int(SecondSegment(s)).val ELSE 0
         /\ s = V_empty => ~parse_out.ok
         /\ s = V_3007_6 => parse_out = Returned(3007, 6)
         /\ s = V_5 => parse_out = Returned(5, 0)
         /\ s = V_a_b => ~parse_out.ok
         /\ s = V_3007_dot => ~parse_out.ok
         /\ s = V_3007_10_2 => parse_out = Returned(3007, 10)

\* a third segment that is no integer, and the call returned
C6_Witness ==
    /\ pc = "parse_returned"
    /\ version_str = Str(<<"1", ".", "0", ".">>)
    /\ parse_out = Returned(1, 0)

\* C7: every pair parse_version returns has major >= 0 and minor >= 0.
C7_NonNegativeComponents ==
    pc = "parse_returned" => parse_out.major >= 0 /\ parse_out.minor >= 0

----------------------------------------------------------------------------
(* Claims about filter_by_version (checked under SpecFilter). *)

\* C1: in a returned result no host id occurs twice in the three collections
\* taken together, and every id in them is a key of the inventory.
C1_Partition ==
    pc = "f_returned" =>
      LET u == KeysOf(result.updatable)
          h == KeysOf(result.higher)
          n == result.unresponsive
      IN /\ Range(u) \cup Range(h) \cup Range(n) \subseteq InventoryIds
         /\ \A id \in InventoryIds :
              Occurrences(u, id) + Occurrences(h, id) + Occurrences(n, id) <= 1

\* one host reported updatable, the other unresponsive
C1_Witness ==
    /\ pc = "f_returned"
    /\ Len(minion_data) = 2
    /\ Len(result.updatable) = 1
    /\ Len(result.unresponsive) = 1

\* C2: the updatable list is, in inventory order, exactly the responsive
\* hosts with major < maxMajor and minor < maxMinor; against 3007.6, 3006.9
\* and 3007.5 are not updatable and 3006.5 is.
C2_Updatable ==
    pc = "f_returned" =>
      /\ ListsInOrder(KeysOf(result.updatable),
                      {h \in Responsive :
                         /\ ParsedOf(h).major < MaxParsed.major
                         /\ ParsedOf(h).minor < MaxParsed.minor})
      /\ max_version = V_3007_6 =>
           \A h \in Responsive :
             /\ RecordOf(h).value \in {Str(V_3006_9), Str(V_3007_5)} =>
                  h \notin Range(KeysOf(result.updatable))
             /\ RecordOf(h).value = Str(V_3006_5) =>
                  h \in Range(KeysOf(result.updatable))

\* 3007.5 then 3006.5 against 3007.6: only the second is updatable
C2_Witness ==
    /\ pc = "f_returned"
    /\ max_version = V_3007_6
    /\ Len(minion_data) = 2
    /\ minion_data[1].rec = Present(Str(V_3007_5))
    /\ minion_data[2].rec = Present(Str(V_3006_5))
    /\ KeysOf(result.updatable) = <<minion_data[2].id>>

\* C3: the higher-version list is, in inventory order, exactly the
\* responsive hosts with major = maxMajor and minor > maxMinor; against
\* 3007.6, 3008.0 is in neither list and 3007.10 is higher.
C3_Higher ==
    pc = "f_returned" =>
      /\ ListsInOrder(KeysOf(result.higher),
                      {h \in Responsive :
                         /\ ParsedOf(h).major = MaxParsed.major
                         /\ ParsedOf(h).minor > MaxParsed.minor})
      /\ max_version = V_3007_6 =>
           \A h \in Responsive :
             /\ RecordOf(h).value = Str(V_3008_0) =>
                  /\ h \notin Range(KeysOf(result.higher))
                  /\ h \notin Range(KeysOf(result.updatable))
             /\ RecordOf(h).value = Str(V_3007_10) =>
                  h \in Range(KeysOf(result.higher))

\* 3008.0 then 3007.10 against 3007.6: only the second is higher
C3_Witness ==
    /\ pc = "f_returned"
    /\ max_version = V_3007_6
    /\ Len(minion_data) = 2
    /\ minion_data[1].rec = Present(Str(V_3008_0))
    /\ minion_data[2].rec = Present(Str(V_3007_10))
    /\ KeysOf(result.higher) = <<minion_data[2].id>>
    /\ result.updatable = <<>>

\* C4: the unresponsive list is, in inventory order, exactly the hosts whose
\* record lacks the field, whatever a present field holds; and a call whose
\* max version parsed never raises on an inventory without any such field.
C4_Unresponsive ==
    /\ (pc \notin {"f_parse_max", "f_unresponsive"} /\ max_parsed.ok) =>
         ListsInOrder(unresponsive_minions, InventoryIds \ Responsive)
    /\ pc = "f_returned" => result.unresponsive = unresponsive_minions
    /\ (pc = "f_raised" /\ max_parsed.ok) => Responsive # {}

\* two hosts without the field, the higher id first
C4_Witness ==
    /\ pc = "f_returned"
    /\ Len(minion_data) = 2
    /\ Responsive = {}
    /\ result.unresponsive = <<H2, H1>>

\* C5: the call raises exactly when the max version or the version of some
\* responsive host is malformed, and then returns nothing; a malformed max
\* version raises before anything else is computed.
C5_AllOrNothing ==
    /\ pc \in {"f_returned", "f_raised"} =>
         (pc = "f_raised") =
           (\/ ~WellFormed(max_version)
            \/ \E h \in Responsive : ~WellFormedValue(RecordOf(h).value))
    /\ pc = "f_raised" => result = FNotCalled
    /\ pc = "f_returned" => result.ok
    /\ (pc # "f_parse_max" /\ ~WellFormed(max_version)) =>
         /\ pc = "f_raised"
         /\ unresponsive_minions = <<>>
         /\ parsed_minions = <<>>

\* a well-formed host, then a malformed one: the call raised, nothing returned
C5_Witness ==
    /\ pc = "f_raised"
    /\ max_parsed.ok
    /\ Len(minion_data) = 2
    /\ minion_data[1].rec = Present(Str(V_3006_5))
    /\ minion_data[2].rec = Present(Str(V_a_b))
    /\ result = FNotCalled

\* a decimal numeral without leading zeros, with an optional minus sign
Canonical(seg) ==
    LET body == IF seg # <<>> /\ Head(seg) = "-" THEN Tail(seg) ELSE seg
    IN /\ body # <<>>
       /\ \A i \in 1..Len(body) : body[i] \in Digits
       /\ Len(body) > 1 => body[1] # "0"

\* C8: every reported entry maps the host id to "{major}.{minor}": two
\* canonical decimal components, which parse back to the pair the host's own
\* string parsed to ("3006" -> "3006.0", "03006.05" -> "3006.5",
\* "3007.10.2" -> "3007.10").
C8_Formatting ==
    pc = "f_returned" =>
      \A list \in {result.updatable, result.higher} :
        \A i \in 1..Len(list) :
          LET e == list[i]
              segs == split(e.text, ".")
              orig == RecordOf(e.key).value
          IN /\ e.key \in Responsive
             /\ Len(segs) = 2
             /\ Canonical(segs[1]) /\ Canonical(segs[2])
             /\ parse_version(Str(e.text)) = parse_version(orig)
             /\ orig = Str(V_3006) => e.text = <<"3", "0", "0", "6", ".", "0">>
             /\ orig = Str(V_03006_05) => e.text = V_3006_5
             /\ orig = Str(V_3007_10_2) => e.text = V_3007_10

\* "3006" reported updatable as "3006.0", "3007.10.2" higher as "3007.10"
C8_Witness ==
    /\ pc = "f_returned"
    /\ max_version = V_3007_6
    /\ Len(minion_data) = 2
    /\ minion_data[1].rec = Present(Str(V_3006))
    /\ minion_data[2].rec = Present(Str(V_3007_10_2))
    /\ Len(result.updatable) = 1
    /\ result.updatable[1].text = <<"3", "0", "0", "6", ".", "0">>
    /\ Len(result.higher) = 1
    /\ result.higher[1].text = V_3007_10

----------------------------------------------------------------------------
(* Claims about main (checked under Spec). *)

\* what classifying the k-th configured file gives
Classified(k) == filter_by_version(MAX_VERSION, disk[k].data)

\* C9: once loading is over with an empty list, main has printed the single
\* "no data" message, classified nothing and returned; a run that ends with a
\* non-empty list has printed no "no data" message and one report per
\* configured file, in the configured order.
C9_NoDataOrReports ==
    /\ (pc \notin {"m_load", "m_raised"} /\ all_minion_data = <<>>) =>
         /\ pc = "m_done"
         /\ output = <<NoDataMessage>>
         /\ processed_data = <<>>
    /\ all_minion_data # <<>> =>
         \A k \in 1..Len(output) : output[k].kind = "report"
    /\ (pc = "m_done" /\ all_minion_data # <<>>) =>
         /\ Len(output) = Len(JSON_FILES)
         /\ \A k \in 1..Len(output) :
              /\ output[k].header = <<"D", "A", "T", "A">> \o int_str(k)
              /\ output[k].updatable = Classified(k).updatable
              /\ output[k].higher = Classified(k).higher
              /\ output[k].unresponsive = Classified(k).unresponsive

\* no file is configured: the one message, and the run is over
C9_Witness ==
    /\ pc = "m_done"
    /\ JSON_FILES = <<>>
    /\ output = <<NoDataMessage>>

\* C10: a report is printed only after every file has loaded and every
\* inventory has been classified, so a run in which a load or a
\* classification fails prints nothing at all.
C10_ReportsOnlyAfterAll ==
    /\ Reports # <<>> =>
         /\ pc \in {"m_report", "m_done"}
         /\ Len(all_minion_data) = Len(JSON_FILES)
         /\ Len(processed_data) = Len(JSON_FILES)
    /\ pc = "m_raised" => output = <<>>
    /\ (\E k \in 1..Len(JSON_FILES) : ~disk[k].ok \/ ~Classified(k).ok) =>
         /\ output = <<>>
         /\ pc # "m_done"

\* the first inventory was classified, a later one raised: nothing is printed
C10_Witness ==
    /\ pc = "m_raised"
    /\ Len(all_minion_data) = Len(JSON_FILES)
    /\ Len(processed_data) >= 1
    /\ processed_data[1].updatable # <<>>
    /\ output = <<>>

====
